---- MODULE Spec2Model ----
(***************************************************************************)
(* Register-transfer model of the microprogrammed simple computer of       *)
(* improved_simple_computer_control_cpu_2.cpp: seven registers, the        *)
(* register-to-register unit (GprBus), the arithmetic/flag unit (Adder),   *)
(* the 128-word memory and the microcoded control unit, clocked through    *)
(* the four phases RisingEdge, HighLevel, FallingEdge, LowLevel.           *)
(*                                                                         *)
(* A control word (DWORD) is modelled as the set of the control lines that *)
(* are 1 in it: `a & b` is intersection, `a | b` is union, `a & m` being   *)
(* non-zero is a non-empty intersection and `(a & m) == X` is equality     *)
(* with the one-line set {X}.                                              *)
(***************************************************************************)
EXTENDS Integers, Sequences, FiniteSets, TLC

VARIABLES
    reg,        \* mStore of each of the seven Register objects
    mem,        \* Memory::mStore[128]
    dataBus,    \* Computer::mBusLines
    ctrlBus,    \* Computer::mCtrlLines
    aluStore,   \* Adder::mStore
    phase,      \* which of the four loops of Computer::Update runs next
    status,     \* "running" until Control::RisingEdge calls exit(0)
    lookedUp,   \* the word Control::RisingEdge read from mMicrocode in the last decode
    drove,      \* <<component, value>> for every write of the data bus in this tick
    latched,    \* <<component, bus value>> for every capture of the data bus in this tick
    origin,     \* <<accumulator, F>> of the initial state
    start,      \* the registers and memory when the current instruction began
    ticks,      \* the passes of the loop of Computer::Update begun, counted up to MaxTicks
    resets,     \* the calls of Computer::Reset so far
    idle        \* the decodes in a row, up to now, that neither cleared the step
                \* counter nor halted, counted up to MaxTicks

vars ==
    <<reg, mem, dataBus, ctrlBus, aluStore, phase, status, lookedUp, drove, latched,
      origin, start, ticks, resets, idle>>

----------------------------------------------------------------------------
(* Control lines *)

GPR_M   == "GPR_M"
INCPC   == "INCPC"
GPR_PC  == "GPR_PC"
PC_MAR  == "PC_MAR"
GPR_MAR == "GPR_MAR"
GPR_OP  == "GPR_OP"
M_GPR   == "M_GPR"
A_GPR   == "A_GPR"
PC_GPR  == "PC_GPR"
INCGPR  == "INCGPR"
ADD     == "ADD"
CLRA    == "CLRA"
ROR     == "ROR"
ROL     == "ROL"
CLRF    == "CLRF"
COMF    == "COMF"
COMA    == "COMA"
INCA    == "INCA"
INCPCF  == "INCPCF"
INCPCZ  == "INCPCZ"
CLRSC   == "CLRSC"
HLT     == "HLT"

\* The lines that are 1 in the mask 0xffff (bits 0..15), the increment mask of sReg.
AllOnes16 ==
    {GPR_M, INCPC, GPR_PC, PC_MAR, GPR_MAR, GPR_OP, M_GPR, A_GPR,
     PC_GPR, INCGPR, ADD, CLRA, ROR, ROL, CLRF, COMF}

ControlLines == AllOnes16 \cup {COMA, INCA, INCPCF, INCPCZ, CLRSC, HLT}

----------------------------------------------------------------------------
(* Widths and sizes *)

WordMod == 65536
MemSize == 128
MicroSize == 136
AccMod == 4096
HltBit == 128

\* A memory cell the constructor never wrote: its value is indeterminate.
Undef == WordMod

\* Values an indeterminate WORD is read as.
GarbageWords == {0, WordMod - 1}

\* Values an indeterminate DWORD of control lines is read as.
GarbageControl == {{}, ControlLines}

RECURSIVE BitOr(_, _)
BitOr(a, b) ==
    IF a = 0 THEN b
    ELSE IF b = 0 THEN a
    ELSE (IF a % 2 = 1 \/ b % 2 = 1 THEN 1 ELSE 0) + 2 * BitOr(a \div 2, b \div 2)

Bit(x, k) == (x \div (2 ^ k)) % 2

----------------------------------------------------------------------------
(* The components, in the order of Computer::mComponents *)

RegNames == {"sReg", "pcReg", "accReg", "gprReg", "flgReg", "oprReg", "marReg"}

Components ==
    <<"sReg", "pcReg", "accReg", "gprReg", "flgReg", "oprReg", "marReg",
      "gBus", "alu", "ram", "ctrl">>

InMask ==
    [sReg   |-> {},
     pcReg  |-> {GPR_PC},
     accReg |-> {},
     gprReg |-> {PC_GPR, A_GPR, M_GPR},
     flgReg |-> {},
     oprReg |-> {},
     marReg |-> {PC_MAR, GPR_MAR}]

OutMaskAccSilent ==
    [sReg   |-> {},
     pcReg  |-> {PC_MAR, PC_GPR},
     accReg |-> {},
     gprReg |-> {GPR_M, GPR_MAR, GPR_OP, GPR_PC},
     flgReg |-> {},
     oprReg |-> {},
     marReg |-> {}]

\* Fault model: a program counter that does not drive the bus during the swap.
OutMaskPcSilentOnSwap ==
    [sReg   |-> {},
     pcReg  |-> {PC_MAR},
     accReg |-> {A_GPR},
     gprReg |-> {GPR_M, GPR_MAR, GPR_OP, GPR_PC},
     flgReg |-> {},
     oprReg |-> {},
     marReg |-> {}]

OutMaskAccOnRead ==
    [sReg   |-> {},
     pcReg  |-> {PC_MAR, PC_GPR},
     accReg |-> {A_GPR, M_GPR},
     gprReg |-> {GPR_M, GPR_MAR, GPR_OP, GPR_PC},
     flgReg |-> {},
     oprReg |-> {},
     marReg |-> {}]

OutMask ==
    [sReg   |-> {},
     pcReg  |-> {PC_MAR, PC_GPR},
     accReg |-> {A_GPR},
     gprReg |-> {GPR_M, GPR_MAR, GPR_OP, GPR_PC},
     flgReg |-> {},
     oprReg |-> {},
     marReg |-> {}]

IncrMask ==
    [sReg   |-> AllOnes16,
     pcReg  |-> {INCPC},
     accReg |-> {INCA},
     gprReg |-> {INCGPR},
     flgReg |-> {},
     oprReg |-> {},
     marReg |-> {}]

BitMask ==
    [sReg   |-> 15,
     pcReg  |-> 255,
     accReg |-> 4095,
     gprReg |-> 4095,
     flgReg |-> 3,
     oprReg |-> 15,
     marReg |-> 255]

\* Fault model: a GPR bus wired for the swap only.
GprBusInMaskSwapOnly == {PC_GPR}

GprBusInMask == {PC_GPR, GPR_OP}

AdderInMaskWithCopy == {A_GPR, ADD, ROL, ROR, COMA, COMF, CLRA, CLRF}

AdderInMask == {ADD, ROL, ROR, COMA, COMF, CLRA, CLRF}

\* Fault model: a memory that also stores the bus while the address is loaded.
MemInMaskWithAddress == {GPR_M, GPR_MAR}

MemInMask == {GPR_M}

MemOutMask == {M_GPR}

----------------------------------------------------------------------------
(* The microcode table Microprg, copied into Control::mMicrocode *)

Microprg ==
    [i \in 0 .. (MicroSize - 1) |->
        CASE i = 0   -> {PC_MAR}
          [] i = 1   -> {M_GPR, INCPC}
          [] i = 2   -> {GPR_OP}
          [] i = 8   -> {CLRA}
          [] i = 16  -> {COMA}
          [] i = 24  -> {INCA}
          [] i = 32  -> {CLRF}
          [] i = 40  -> {COMF}
          [] i = 48  -> {INCPCF}
          [] i = 56  -> {ROR}
          [] i = 64  -> {ROL}
          [] i \in {9, 17, 25, 33, 41, 49, 57, 65} -> {CLRSC}
          [] i = 72  -> {GPR_MAR}
          [] i = 73  -> {M_GPR}
          [] i = 74  -> {ADD}
          [] i = 75  -> {CLRSC}
          [] i = 80  -> {GPR_MAR}
          [] i = 81  -> {M_GPR}
          [] i = 82  -> {GPR_MAR}
          [] i = 83  -> {M_GPR}
          [] i = 84  -> {ADD}
          [] i = 85  -> {CLRSC}
          [] i = 88  -> {GPR_MAR}
          [] i = 89  -> {A_GPR}
          [] i = 90  -> {GPR_M}
          [] i = 91  -> {CLRSC}
          [] i = 96  -> {GPR_PC}
          [] i = 97  -> {CLRSC}
          [] i = 104 -> {GPR_MAR}
          [] i = 105 -> {M_GPR}
          [] i = 106 -> {GPR_PC}
          [] i = 107 -> {CLRSC}
          [] i = 112 -> {GPR_MAR}
          [] i = 113 -> {PC_GPR}
          [] i = 114 -> {GPR_M}
          [] i = 115 -> {INCPC}
          [] i = 116 -> {CLRSC}
          [] i = 120 -> {GPR_MAR}
          [] i = 121 -> {M_GPR}
          [] i = 122 -> {INCGPR}
          [] i = 123 -> {GPR_M}
          [] i = 124 -> {INCPCZ}
          [] i = 125 -> {CLRSC}
          [] i = 128 -> {HLT}
          [] i = 129 -> {CLRSC}
          [] OTHER   -> {}]

\* mMicrocode[i]: the table inside its 136 entries, an indeterminate DWORD outside.
MicrocodeAt(i) == IF i \in DOMAIN Microprg THEN {Microprg[i]} ELSE GarbageControl

----------------------------------------------------------------------------
(* Register *)

\* Register::Set: mStore = data & mBitMask
SetReg(r, data) == data % (BitMask[r] + 1)

\* Fault model: an increment that stops at the largest value of the register.
IncrementSaturating(r, v) == IF v = BitMask[r] THEN v ELSE v + 1

\* Register::Increment: mStore = (mStore + 1) & mBitMask
Increment(r, v) == (v + 1) % (BitMask[r] + 1)

\* Register::HighLevel: component -> bus
RegHighLevel(r, st, cw) ==
    IF cw \cap OutMask[r] # {}
    THEN [st EXCEPT !.bus = st.reg[r],
                    !.drove = Append(@, <<r, st.reg[r]>>)]
    ELSE st

\* The condition of Register::FallingEdge
Increments(r, cw) == (cw \cap IncrMask[r] # {}) \/ IncrMask[r] = AllOnes16

\* Register::FallingEdge
RegFallingEdge(r, st, cw) ==
    IF Increments(r, cw)
    THEN [st EXCEPT !.reg[r] = Increment(r, @)]
    ELSE st

\* Fault model: a register that latches the bus word as it comes.
RegLowLevelUnmasked(r, st, cw) ==
    IF cw \cap InMask[r] # {}
    THEN [st EXCEPT !.reg[r] = st.bus,
                    !.latched = Append(@, <<r, st.bus>>)]
    ELSE st

\* Register::LowLevel: bus -> component
RegLowLevel(r, st, cw) ==
    IF cw \cap InMask[r] # {}
    THEN [st EXCEPT !.reg[r] = st.bus % (BitMask[r] + 1),
                    !.latched = Append(@, <<r, st.bus>>)]
    ELSE st

----------------------------------------------------------------------------
(* GprBus *)

\* GprBus::FallingEdge: PC <-> GPR(AD) swap and GPR(OP) -> OPR
GprBusFallingEdge(st, cw) ==
    LET m == cw \cap GprBusInMask
        swapped ==
            IF m = {PC_GPR}
            THEN LET a == st.reg.pcReg % 256
                     b == st.reg.gprReg % 256
                 IN  [st EXCEPT !.reg.pcReg = SetReg("pcReg", b),
                                !.reg.gprReg = SetReg("gprReg", a)]
            ELSE st
    IN  IF m = {GPR_OP}
        THEN [swapped EXCEPT !.reg.oprReg = SetReg("oprReg", swapped.reg.gprReg \div 256)]
        ELSE swapped

----------------------------------------------------------------------------
(* Adder *)

\* Fault model: an adder that ORs its operands.
AdderHighLevelOr(st, cw) ==
    [st EXCEPT !.alu = BitOr(st.reg.accReg, st.reg.gprReg) % AccMod]

\* Adder::HighLevel: the sum is kept in mStore, nothing is driven
AdderHighLevel(st, cw) ==
    [st EXCEPT !.alu = (st.reg.accReg + st.reg.gprReg) % AccMod]

\* Fault model: a rotate left that shifts a 0 in instead of the saved F.
RolAccShiftOnly(acc, nextFlag, flagF) ==
    [acc   |-> SetReg("accReg", (acc * 2) % AccMod),
     flg   |-> SetReg("flgReg", IF Bit(acc, 11) = 1
                                THEN BitOr(nextFlag, 1)
                                ELSE Bit(nextFlag, 1) * 2),
     store |-> (acc * 2) % AccMod]

\* Adder::RolAcc on accumulator acc, with mNextFlag and the saved mFlagF
RolAcc(acc, nextFlag, flagF) ==
    LET shifted == BitOr((acc * 2) % AccMod, flagF)
    IN  [acc   |-> SetReg("accReg", shifted),
         flg   |-> SetReg("flgReg", IF Bit(acc, 11) = 1
                                    THEN BitOr(nextFlag, 1)
                                    ELSE Bit(nextFlag, 1) * 2),
         store |-> shifted]

\* Adder::RorAcc
RorAcc(acc, nextFlag, flagF) ==
    LET shifted == BitOr((acc \div 2) % AccMod, IF flagF # 0 THEN 2048 ELSE 0)
    IN  [acc   |-> SetReg("accReg", shifted),
         flg   |-> SetReg("flgReg", IF Bit(acc, 0) = 1
                                    THEN BitOr(nextFlag, 1)
                                    ELSE Bit(nextFlag, 1) * 2)]

\* Fault model: a Z that is only ever set, never cleared.
ZeroFlagSticky(flg, gpr) == IF gpr # 0 THEN flg ELSE BitOr(flg, 2)

\* The first part of Adder::FallingEdge: mNextFlag after Z is recomputed from GPR
ZeroFlag(flg, gpr) == IF gpr # 0 THEN flg % 2 ELSE BitOr(flg, 2)

\* Adder::FallingEdge
AdderFallingEdge(st, cw) ==
    LET flagF    == st.reg.flgReg % 2
        nextFlag == ZeroFlag(st.reg.flgReg, st.reg.gprReg)
        s0       == [st EXCEPT !.reg.flgReg = SetReg("flgReg", nextFlag)]
        m        == cw \cap AdderInMask
        acc      == s0.reg.accReg
    IN  CASE m = {A_GPR} -> [s0 EXCEPT !.reg.gprReg = SetReg("gprReg", acc % AccMod)]
          [] m = {ADD}   -> [s0 EXCEPT !.reg.accReg = SetReg("accReg", s0.alu)]
          [] m = {COMA}  -> [s0 EXCEPT !.reg.accReg = SetReg("accReg", (WordMod - 1 - acc) % AccMod)]
          [] m = {COMF}  -> [s0 EXCEPT !.reg.flgReg =
                                SetReg("flgReg", (IF @ % 2 = 1 THEN @ - 1 ELSE @ + 1) % 4)]
          [] m = {CLRA}  -> [s0 EXCEPT !.reg.accReg = 0]
          [] m = {CLRF}  -> [s0 EXCEPT !.reg.flgReg = SetReg("flgReg", Bit(@, 1) * 2)]
          [] m = {ROL}   -> LET r == RolAcc(acc, nextFlag, flagF)
                            IN  [s0 EXCEPT !.reg.accReg = r.acc, !.reg.flgReg = r.flg,
                                           !.alu = r.store]
          [] m = {ROR}   -> LET r == RorAcc(acc, nextFlag, flagF)
                            IN  [s0 EXCEPT !.reg.accReg = r.acc, !.reg.flgReg = r.flg]
          [] OTHER       -> s0

----------------------------------------------------------------------------
(* Memory *)

\* The values mStore[a] can be read as: the cell, or an indeterminate WORD when the
\* cell was never written or a lies beyond the array.
MemRead(m, a) ==
    IF a \in DOMAIN m /\ m[a] # Undef THEN {m[a]} ELSE GarbageWords

\* What a write beyond the array does: it hits other storage and goes unnoticed by
\* the machine, or the process dies.
OobOutcomes == {"lost", "crash"}

\* Memory::HighLevel: RAM -> bus; g is the value read
MemHighLevel(st, cw, g) ==
    IF cw \cap MemOutMask # {}
    THEN [st EXCEPT !.bus = g, !.drove = Append(@, <<"ram", g>>)]
    ELSE st

\* Memory::LowLevel: bus -> RAM; o is the outcome of a write beyond the array
MemLowLevel(st, cw, o) ==
    IF cw \cap MemInMask # {}
    THEN LET a == st.reg.marReg
         IN  IF a \in DOMAIN st.mem
             THEN [st EXCEPT !.mem[a] = st.bus,
                             !.latched = Append(@, <<"ram", st.bus>>)]
             ELSE [st EXCEPT !.crash = (o = "crash"),
                             !.latched = Append(@, <<"ram", st.bus>>)]
    ELSE st

----------------------------------------------------------------------------
(* The four phases over the component list *)

\* c->HighLevel()
HighLevel(c, st, cw, g) ==
    CASE c \in RegNames -> RegHighLevel(c, st, cw)
      [] c = "alu"      -> AdderHighLevel(st, cw)
      [] c = "ram"      -> MemHighLevel(st, cw, g)
      [] OTHER          -> st

\* c->FallingEdge()
FallingEdge(c, st, cw) ==
    CASE c \in RegNames -> RegFallingEdge(c, st, cw)
      [] c = "gBus"     -> GprBusFallingEdge(st, cw)
      [] c = "alu"      -> AdderFallingEdge(st, cw)
      [] OTHER          -> st

\* c->LowLevel()
LowLevel(c, st, cw, o) ==
    CASE c \in RegNames -> RegLowLevel(c, st, cw)
      [] c = "ram"      -> MemLowLevel(st, cw, o)
      [] OTHER          -> st

\* Fault model: a reset that leaves the step counter as it is.
RegResetKeepsSteps(r, st) ==
    IF r = "sReg" THEN st ELSE [st EXCEPT !.reg[r] = 0]

\* Register::Reset
RegReset(r, st) == [st EXCEPT !.reg[r] = 0]

\* c->Reset(): the components other than the registers have an empty Reset
Reset(c, st) ==
    CASE c \in RegNames -> RegReset(c, st)
      [] OTHER          -> st

\* for (auto& c : mComponents) c-><phase>(), over the components order[i..]
RECURSIVE ForEach(_, _, _, _, _, _)
ForEach(ph, order, i, st, cw, x) ==
    IF i > Len(order) THEN st
    ELSE ForEach(ph, order, i + 1,
                 CASE ph = "HighLevel"   -> HighLevel(order[i], st, cw, x)
                   [] ph = "FallingEdge" -> FallingEdge(order[i], st, cw)
                   [] ph = "LowLevel"    -> LowLevel(order[i], st, cw, x)
                   [] ph = "Reset"       -> Reset(order[i], st),
                 cw, x)

\* Every order in which the components of the set S can be put
RECURSIVE Orders(_)
Orders(S) ==
    IF S = {} THEN {<<>>}
    ELSE UNION {{<<c>> \o o : o \in Orders(S \ {c})} : c \in S}

\* The components whose HighLevel has a body that can act: the registers that have
\* an out mask, the adder and the memory
DriveOrders == Orders({r \in RegNames : OutMask[r] # {}} \cup {"alu", "ram"})

\* The components whose FallingEdge has a body that can act: the registers that
\* have an increment mask, the GPR bus and the adder
ComputeOrders == Orders({r \in RegNames : IncrMask[r] # {}} \cup {"gBus", "alu"})

\* The components whose LowLevel has a body that can act: the registers that have
\* an in mask and the memory
LatchOrders == Orders({r \in RegNames : InMask[r] # {}} \cup {"ram"})

\* The machine state the components work on.
Machine ==
    [reg |-> reg, mem |-> mem, bus |-> dataBus, alu |-> aluStore,
     drove |-> drove, latched |-> latched, crash |-> FALSE]

----------------------------------------------------------------------------
(* Control *)

\* Fault model: a lookup without the halt bit, so that opcode 0 indexes block 0.
LookupIndexNoRedirect(steps, opr) ==
    IF steps > 2
    THEN BitOr((opr % 256) * 8, steps - 3)
    ELSE steps

\* Fault model: the halt bit set for the non-zero opcodes instead of opcode 0.
LookupIndexHltInverted(steps, opr) ==
    IF steps > 2
    THEN LET mOpcode == opr % 256
             mHltBit == IF mOpcode = 0 THEN 0 ELSE HltBit
         IN  BitOr(BitOr(mOpcode * 8, mHltBit), steps - 3)
    ELSE steps

\* The index into mMicrocode that Control::RisingEdge computes
LookupIndex(steps, opr) ==
    IF steps > 2
    THEN LET mOpcode == opr % 256
             mHltBit == IF mOpcode = 0 THEN HltBit ELSE 0
         IN  BitOr(BitOr(mOpcode * 8, mHltBit), steps - 3)
    ELSE steps

\* Fault model: a skip that does not look at the flags.
SkipsAlways(w, flg) ==
    IF INCPCF \in w \/ INCPCZ \in w THEN w \cup {INCPC} ELSE w

\* Fault model: INCPCZ skipping on Z = 0.
SkipsOnZeroClear(w, flg) ==
    LET mFlagF == Bit(flg, 0)
        mFlagZ == Bit(flg, 1)
        w1 == IF INCPCF \in w /\ mFlagF = 0 THEN w \cup {INCPC} ELSE w
    IN  IF INCPCZ \in w1 /\ mFlagZ = 0 THEN w1 \cup {INCPC} ELSE w1

\* The conditional skips: INCPC is added for INCPCF with F = 0 and for INCPCZ with Z = 1
Skips(w, flg) ==
    LET mFlagF == Bit(flg, 0)
        mFlagZ == Bit(flg, 1)
        w1 == IF INCPCF \in w /\ mFlagF = 0 THEN w \cup {INCPC} ELSE w
    IN  IF INCPCZ \in w1 /\ mFlagZ = 1 THEN w1 \cup {INCPC} ELSE w1

\* Fault model: a control unit that never clears the step counter.
ClearsStepsNever(w) == FALSE

\* if (mControlBus & CLRSC)
ClearsSteps(w) == CLRSC \in w

\* Fault model: a control unit that ignores HLT.
HaltsNever(w) == FALSE

\* if (mControlBus & HLT) exit(0)
Halts(w) == HLT \in w

\* Fault model: a decode that publishes the looked-up CLRSC word itself.
PublishedAsLookedUp(raw, flg) == Skips(raw, flg)

\* The word Control::RisingEdge leaves on the control bus, from the word it looked up
Published(raw, flg) ==
    LET w == Skips(raw, flg)
    IN  IF ClearsSteps(w) THEN Microprg[0] ELSE w

----------------------------------------------------------------------------
(* Memory images *)

ImageLen == 17
ProgLen == 2
DataAddr == 8
MaxTicks == 24
MaxOperand == 5
MaxResets == 2

\* WORD prg[] of Memory::Memory
prg ==
    <<256, 2568, 3848, 3849, 3073, 2823, 0, 0, 10, 4090, 1, 3, 5, 7, 9, 11, 0>>

\* mStore after the constructor copied p: the cells beyond it were never written
Image(p) == [a \in 0 .. (MemSize - 1) |-> IF a < Len(p) THEN p[a + 1] ELSE Undef]

\* Instruction words: opcode in bits 11..8, the operand address in bits 7..0
Instr(op, ad) == op * 256 + ad

DataVals == {0, 5, AccMod - 1}

\* Programs of ProgLen instructions on one data cell, every other word HLT / 0
AnyPrograms ==
    {[a \in 1 .. ImageLen |->
        IF a <= ProgLen THEN Instr(ops[a], DataAddr)
        ELSE IF a = DataAddr + 1 THEN d ELSE 0] :
     ops \in [1 .. ProgLen -> 0 .. 15], d \in DataVals}

\* The two rotate round trips: ROL then ROR, ROR then ROL, then HLT
RotPrograms ==
    {[a \in 1 .. ImageLen |->
        IF a = 1 THEN Instr(first, 0)
        ELSE IF a = 2 THEN Instr(15 - first, 0) ELSE 0] : first \in {7, 8}}

\* Programs of one instruction on one data cell, every other word HLT / 0
OnePrograms ==
    {[a \in 1 .. ImageLen |->
        IF a = 1 THEN Instr(op, DataAddr)
        ELSE IF a = DataAddr + 1 THEN x ELSE 0] : op \in 0 .. 15, x \in DataVals}

\* Operand values of the ADD programs: the small ones, the ones that carry out of
\* bit 11 and the two around the sign bit
AddVals ==
    (0 .. MaxOperand) \cup {AccMod - 1 - k : k \in 0 .. MaxOperand}
                     \cup {AccMod \div 2 - 1, AccMod \div 2}

\* ADD DataAddr, ADD DataAddr+1, HLT: the first addition brings the accumulator
\* from 0 to mem[DataAddr], the second one adds mem[DataAddr+1] to it
AddPrograms ==
    {[a \in 1 .. ImageLen |->
        IF a = 1 THEN Instr(9, DataAddr)
        ELSE IF a = 2 THEN Instr(9, DataAddr + 1)
        ELSE IF a = DataAddr + 1 THEN x
        ELSE IF a = DataAddr + 2 THEN y ELSE 0] : x \in AddVals, y \in AddVals}

----------------------------------------------------------------------------
(* The machine *)

\* Computer::Computer and Computer::Reset: every register 0, buses not initialised
InitWith(images, accs, flags) ==
    /\ mem \in {Image(p) : p \in images}
    /\ \E a \in accs, f \in flags :
          /\ reg = [r \in RegNames |->
                      IF r = "accReg" THEN a ELSE IF r = "flgReg" THEN f ELSE 0]
          /\ origin = <<a, f>>
    /\ dataBus \in GarbageWords
    /\ ctrlBus \in GarbageControl
    /\ aluStore \in GarbageWords
    /\ phase = "decode"
    /\ status = "running"
    /\ lookedUp = {}
    /\ drove = <<>>
    /\ latched = <<>>
    /\ start = [reg |-> reg, mem |-> mem]
    /\ ticks = 0
    /\ resets = 0
    /\ idle = 0

Init == InitWith({prg}, {0}, {0})

InitAny == InitWith(AnyPrograms, {0}, {0})

InitRot == InitWith(RotPrograms, 0 .. (AccMod - 1), {0, 1})

InitAdd == InitWith(AddPrograms, {0}, {0})

InitOne == InitWith(OnePrograms, {0}, {0})

\* The Computer object before the constructor calls Reset: the constructor of
\* Register leaves mStore as it finds it
InitRaw ==
    /\ mem = Image(prg)
    /\ reg \in [RegNames -> GarbageWords]
    /\ origin = <<0, 0>>
    /\ dataBus \in GarbageWords
    /\ ctrlBus \in GarbageControl
    /\ aluStore \in GarbageWords
    /\ phase = "decode"
    /\ status = "constructed"
    /\ lookedUp = {}
    /\ drove = <<>>
    /\ latched = <<>>
    /\ start = [reg |-> reg, mem |-> mem]
    /\ ticks = 0
    /\ resets = 0
    /\ idle = 0

\* Fault model: a tick loop without the FallingEdge pass.
NextPhaseNoCompute(ph) ==
    CASE ph = "decode" -> "drive"
      [] ph = "drive"  -> "latch"
      [] OTHER         -> "decode"

\* The order of the four loops in the body of Computer::Update
NextPhase(ph) ==
    CASE ph = "decode"  -> "drive"
      [] ph = "drive"   -> "compute"
      [] ph = "compute" -> "latch"
      [] ph = "latch"   -> "decode"

\* Control::RisingEdge (the first loop of Computer::Update)
Decode ==
    /\ phase = "decode"
    /\ status = "running"
    /\ \E raw \in MicrocodeAt(LookupIndex(reg.sReg, reg.oprReg)) :
          LET pub == Published(raw, reg.flgReg)
          IN  /\ reg' = IF ClearsSteps(Skips(raw, reg.flgReg))
                        THEN [reg EXCEPT !.sReg = 0] ELSE reg
              /\ ctrlBus' = pub
              /\ lookedUp' = raw
              /\ status' = IF Halts(pub) THEN "halted" ELSE "running"
              /\ phase' = IF Halts(pub) THEN phase ELSE NextPhase(phase)
              /\ start' = IF ClearsSteps(Skips(raw, reg.flgReg))
                          THEN [reg |-> reg, mem |-> mem] ELSE start
    /\ drove' = <<>>
    /\ latched' = <<>>
    /\ ticks' = IF ticks < MaxTicks THEN ticks + 1 ELSE ticks
    /\ idle' = IF CLRSC \in lookedUp' \/ status' = "halted" THEN 0
               ELSE IF idle < MaxTicks THEN idle + 1 ELSE idle
    /\ UNCHANGED <<mem, dataBus, aluStore, origin, resets>>

\* Decode, for the first MaxTicks ticks only
DecodeCapped == ticks < MaxTicks /\ Decode

\* The HighLevel loop of Computer::Update
Drive ==
    /\ phase = "drive"
    /\ status = "running"
    /\ \E g \in MemRead(mem, reg.marReg) :
          LET st == ForEach("HighLevel", Components, 1, Machine, ctrlBus, g)
          IN  /\ dataBus' = st.bus
              /\ aluStore' = st.alu
              /\ drove' = st.drove
    /\ phase' = NextPhase(phase)
    /\ UNCHANGED <<reg, mem, ctrlBus, status, lookedUp, latched, origin, start, ticks,
                   resets, idle>>

\* The FallingEdge loop of Computer::Update
Compute ==
    /\ phase = "compute"
    /\ status = "running"
    /\ LET st == ForEach("FallingEdge", Components, 1, Machine, ctrlBus, 0)
       IN  /\ reg' = st.reg
           /\ aluStore' = st.alu
    /\ phase' = NextPhase(phase)
    /\ UNCHANGED <<mem, dataBus, ctrlBus, status, lookedUp, drove, latched, origin, start,
                   ticks, resets, idle>>

\* The LowLevel loop of Computer::Update
Latch ==
    /\ phase = "latch"
    /\ status = "running"
    /\ \E o \in OobOutcomes :
          LET st == ForEach("LowLevel", Components, 1, Machine, ctrlBus, o)
          IN  /\ reg' = st.reg
              /\ mem' = st.mem
              /\ latched' = st.latched
              /\ status' = IF st.crash THEN "crashed" ELSE "running"
    /\ phase' = NextPhase(phase)
    /\ UNCHANGED <<dataBus, ctrlBus, aluStore, lookedUp, drove, origin, start, ticks,
                   resets, idle>>

\* Computer::Reset, called by the constructor, by main before the tick loop and,
\* up to MaxResets calls in all, between two ticks of a run
ResetStep ==
    /\ phase = "decode"
    /\ \/ status = "constructed"
       \/ status = "running" /\ resets < MaxResets
    /\ LET st == ForEach("Reset", Components, 1, Machine, ctrlBus, 0)
       IN  /\ reg' = st.reg
           /\ start' = [reg |-> st.reg, mem |-> mem]
    /\ status' = "running"
    /\ resets' = resets + 1
    /\ idle' = 0
    /\ UNCHANGED <<mem, dataBus, ctrlBus, aluStore, phase, lookedUp, drove, latched,
                   origin, ticks>>

Next == Decode \/ Drive \/ Compute \/ Latch

NextCapped == DecodeCapped \/ Drive \/ Compute \/ Latch

\* The default program
Spec == Init /\ [][Next]_vars

\* The default program, with the main loop delivering ticks for ever
FairSpec == Init /\ [][Next]_vars /\ WF_vars(Next)

\* Any program of the bounded family, run for MaxTicks ticks
SpecAny == InitAny /\ [][NextCapped]_vars

\* The rotate round trips from every accumulator value and both values of F
SpecRot == InitRot /\ [][Next]_vars

NextReset == ResetStep \/ DecodeCapped \/ Drive \/ Compute \/ Latch

\* The default program from the construction on, with resets between ticks
SpecReset == InitRaw /\ [][NextReset]_vars

\* Every instruction as the first one of a program, run for MaxTicks ticks
SpecOne == InitOne /\ [][NextCapped]_vars

\* Two additions in a row on every pair of operand values, from reset
SpecAdd == InitAdd /\ [][Next]_vars

----------------------------------------------------------------------------
(* Properties *)

FlagF == Bit(reg.flgReg, 0)
FlagZ == Bit(reg.flgReg, 1)

\* The word the control unit decodes in the current state asserts HLT.
DecodesHalt ==
    /\ phase = "decode"
    /\ \E raw \in MicrocodeAt(LookupIndex(reg.sReg, reg.oprReg)) :
          HLT \in Published(raw, reg.flgReg)

\* Every micro-operation of the current instruction is done: the word the control
\* unit is about to look up asserts CLRSC.
EndsInstruction ==
    /\ phase = "decode"
    /\ status = "running"
    /\ reg.sReg > 2
    /\ \E raw \in MicrocodeAt(LookupIndex(reg.sReg, reg.oprReg)) : ClearsSteps(raw)

\* The current instruction was fetched from a cell of the memory image and its
\* operand address is one too.
OperandInImage ==
    /\ start.reg.pcReg < MemSize
    /\ start.mem[start.reg.pcReg] # Undef
    /\ start.mem[start.reg.pcReg] % 256 < MemSize
    /\ start.mem[start.mem[start.reg.pcReg] % 256] # Undef

\* C1: running the default memory image from reset, when the control unit asserts
\* halt the result cell mem[7] holds 36.
C1_ResultIs36 == status = "halted" => mem[7] = 36

C1_HaltedWithResult == status = "halted" /\ mem[7] = 36 /\ mem[9] = 0

\* C2: running the default memory image from reset, the machine eventually halts.
C2_EventuallyHalts == <>(status = "halted")

C2_HaltAtWordSix == status = "halted" /\ reg.pcReg = 7 /\ HLT \in lookedUp

\* C3: once the control unit decodes a control word asserting HLT the process ends
\* in that decode: no register, memory cell, bus or adder buffer changes, the tick's
\* drive, compute and latch phases do not run, and no step is taken after the halt.
C3_HaltIsTerminal ==
    [][/\ status # "halted"
       /\ DecodesHalt =>
            /\ UNCHANGED <<reg, mem, dataBus, aluStore>>
            /\ phase' = "decode"
            /\ status' = "halted"]_vars

C3_HaltedAfterWork ==
    status = "halted" /\ phase = "decode" /\ HLT \in ctrlBus /\ reg.accReg # 0

\* C4: right after the compute phase of every tick, before the latch phase, the Z
\* bit of the flag register is 1 iff the general-purpose register is 0.
C4_ZeroFlagAfterCompute ==
    phase = "latch" => (FlagZ = 1 <=> reg.gprReg = 0)

C4_IncrementedToZero ==
    phase = "latch" /\ INCGPR \in ctrlBus /\ reg.gprReg = 0 /\ FlagZ = 1

\* C5 as stated: in every state between ticks, after a tick's latch phase, the Z bit
\* is 1 iff the general-purpose register's current value is 0.
C5_ZeroFlagBetweenTicks ==
    (phase = "decode" /\ ticks > 0) => (FlagZ = 1 <=> reg.gprReg = 0)

\* C5 as amended: the latch phase leaves Z as the compute phase set it, 1 iff the
\* general-purpose register was 0 before the latch; so after a tick whose control
\* word asserts neither M_GPR nor A_GPR, Z is 1 iff the register's current value is 0.
C5_ZeroFlagLagsLoad ==
    [][phase = "latch" =>
         /\ FlagZ' = 1 <=> reg.gprReg = 0
         /\ ctrlBus \cap {M_GPR, A_GPR} = {} => (FlagZ' = 1 <=> reg'.gprReg = 0)]_vars

C5_StaleAfterLoad ==
    /\ phase = "decode" /\ ticks > 0
    /\ M_GPR \in ctrlBus /\ FlagZ = 1 /\ reg.gprReg # 0

\* C6: every value a component captures from the data bus in the latch phase was
\* written to the bus by a component in the drive phase of the same tick.
C6_LatchedWasDriven ==
    \A i \in 1 .. Len(latched) :
        \E j \in 1 .. Len(drove) : drove[j][2] = latched[i][2]

C6_MemoryLatchedGpr ==
    /\ phase = "decode" /\ Len(latched) = 1 /\ latched[1][1] = "ram"
    /\ drove = <<<<"gprReg", latched[1][2]>>>> /\ latched[1][2] # 0

\* C7: at most one component writes the data bus in the drive phase of a tick.
C7_SingleDriver == Len(drove) <= 1

C7_MemoryDrove == phase = "compute" /\ Len(drove) = 1 /\ drove[1][1] = "ram"

\* C8: a rotate-left tick followed by a rotate-right tick, or rotate-right followed
\* by rotate-left, restores the accumulator and the carry flag F, for every 12-bit
\* accumulator value and both values of F.
C8_RotateRoundTrip ==
    status = "halted" => (reg.accReg = origin[1] /\ FlagF = origin[2])

C8_RoundTripDone ==
    status = "halted" /\ origin = <<2049, 0>> /\ reg.accReg = 2049 /\ mem[0] = Instr(8, 0)

\* C9: whenever the control unit looks up an execute-block word (step counter > 2)
\* the offset stepCounter - 3 lies in 0..7.
C9_StepWithinBlock ==
    (phase = "decode" /\ status = "running" /\ reg.sReg > 2) => reg.sReg - 3 \in 0 .. 7

C9_LastStepOfIsz ==
    phase = "decode" /\ status = "running" /\ reg.sReg = 8 /\ reg.oprReg = 15

\* C10 as stated: when the word looked up in tick n asserts CLRSC, the step counter
\* read at the decode of tick n+1 is 0.
C10_StepZeroNextTick ==
    (phase = "decode" /\ ticks > 0 /\ CLRSC \in lookedUp) => reg.sReg = 0

\* C10 as amended: when the word looked up in tick n asserts CLRSC, the step counter
\* is 0 from the decode phase of tick n until its compute phase, which increments
\* it, so that the step counter read at the decode of tick n+1 is 1.
C10_StepOneNextTick ==
    CLRSC \in lookedUp =>
        IF phase \in {"drive", "compute"} THEN reg.sReg = 0 ELSE reg.sReg = 1

C10_AfterClearTick ==
    phase = "decode" /\ ticks > 0 /\ CLRSC \in lookedUp /\ reg.sReg = 1

\* C11: an ADD instruction (opcode 9) fetched from address p whose operand address
\* d holds V, started with the accumulator at A, ends with the accumulator at
\* (A + V) mod 4096, PC at p + 1, GPR at V and Z = 1 iff V = 0.
C11_AddInstruction ==
    (EndsInstruction /\ reg.oprReg = 9) =>
        LET p == start.reg.pcReg
            A == start.reg.accReg
            V == start.mem[start.mem[p] % 256]
        IN  /\ reg.accReg = (A + V) % AccMod
            /\ reg.pcReg = p + 1
            /\ reg.gprReg = V
            /\ (FlagZ = 1 <=> V = 0)

C11_ThreePlusFive ==
    /\ EndsInstruction
    /\ reg.oprReg = 9
    /\ start.reg.accReg = 3
    /\ start.mem[start.mem[start.reg.pcReg] % 256] = 5
    /\ reg.accReg = 8

\* C12: an SFZ instruction (opcode 6) fetched from address p ends with PC at
\* p + 2 mod 256 when F was clear and at p + 1 when F was set; F is unchanged.
C12_SkipOnFlagZero ==
    (EndsInstruction /\ reg.oprReg = 6) =>
        LET p == start.reg.pcReg
            f == Bit(start.reg.flgReg, 0)
        IN  /\ reg.pcReg = (p + (IF f = 0 THEN 2 ELSE 1)) % 256
            /\ FlagF = f

C12_NoSkipWithFlagSet ==
    /\ EndsInstruction
    /\ reg.oprReg = 6
    /\ Bit(start.reg.flgReg, 0) = 1
    /\ start.reg.pcReg = 1
    /\ reg.pcReg = 2

\* The two machine states agree on the registers, the memory, the data bus and
\* the adder buffer.
SameMachine(a, b) ==
    /\ a.reg = b.reg
    /\ a.mem = b.mem
    /\ a.bus = b.bus
    /\ a.alu = b.alu
    /\ a.crash = b.crash

\* The phase about to run leaves the same machine under the order o as under the
\* order of mComponents.
SameAsFixedOrder(o) ==
    CASE phase = "drive" ->
           \A g \in GarbageWords :
              SameMachine(ForEach("HighLevel", o, 1, Machine, ctrlBus, g),
                          ForEach("HighLevel", Components, 1, Machine, ctrlBus, g))
      [] phase = "compute" ->
           SameMachine(ForEach("FallingEdge", o, 1, Machine, ctrlBus, 0),
                       ForEach("FallingEdge", Components, 1, Machine, ctrlBus, 0))
      [] phase = "latch" ->
           \A x \in OobOutcomes :
              SameMachine(ForEach("LowLevel", o, 1, Machine, ctrlBus, x),
                          ForEach("LowLevel", Components, 1, Machine, ctrlBus, x))
      [] OTHER -> TRUE

\* The component c runs before the adder in the order o.
BeforeAlu(o, c) ==
    \E i, j \in 1 .. Len(o) : i < j /\ o[i] = c /\ o[j] = "alu"

\* C13 as stated: in the drive, the compute and the latch phase of every tick, any
\* order of the components leaves the same state as the fixed order.
C13_AnyOrder ==
    /\ phase = "drive" => \A o \in DriveOrders : SameAsFixedOrder(o)
    /\ phase = "compute" => \A o \in ComputeOrders : SameAsFixedOrder(o)
    /\ phase = "latch" => \A o \in LatchOrders : SameAsFixedOrder(o)

\* C13 as amended: in the drive and the latch phase of every tick any order of the
\* components leaves the same state as the fixed order; in the compute phase every
\* order that runs the adder after gprReg and after the GPR bus does.
C13_AdderAfterGpr ==
    /\ phase = "drive" => \A o \in DriveOrders : SameAsFixedOrder(o)
    /\ phase = "compute" =>
          \A o \in ComputeOrders :
             (BeforeAlu(o, "gprReg") /\ BeforeAlu(o, "gBus")) => SameAsFixedOrder(o)
    /\ phase = "latch" => \A o \in LatchOrders : SameAsFixedOrder(o)

C13_AdderBeforeIncrement ==
    /\ phase = "compute"
    /\ INCGPR \in ctrlBus
    /\ \E o \in ComputeOrders : ~BeforeAlu(o, "gprReg") /\ ~SameAsFixedOrder(o)
    /\ \E o \in ComputeOrders :
          /\ BeforeAlu(o, "gprReg") /\ BeforeAlu(o, "gBus")
          /\ o[1] = "gBus"
          /\ SameAsFixedOrder(o)

\* C14: every tick is one cycle decode, drive, compute, latch in that order: the
\* tick count advances in the decode phase only, each phase is followed by the
\* next one (a halting decode ends the run), the drive phase leaves the registers
\* and the memory alone, the compute phase the memory and the data bus, the latch
\* phase the data bus and the adder buffer.
C14_FourPhasesInOrder ==
    [][/\ ticks' # ticks => phase = "decode"
       /\ phase = "decode" =>
             /\ \/ phase' = "drive" /\ status' = "running"
                \/ phase' = "decode" /\ status' = "halted"
             /\ UNCHANGED <<mem, dataBus, aluStore>>
       /\ phase = "drive" => phase' = "compute" /\ UNCHANGED <<reg, mem, ctrlBus>>
       /\ phase = "compute" => phase' = "latch" /\ UNCHANGED <<mem, dataBus, ctrlBus>>
       /\ phase = "latch" =>
             phase' = "decode" /\ UNCHANGED <<dataBus, aluStore, ctrlBus>>]_vars

C14_SecondTickDone ==
    /\ phase = "decode"
    /\ ticks = 2
    /\ Len(drove) = 1 /\ drove[1][1] = "ram"
    /\ Len(latched) = 1 /\ latched[1][1] = "gprReg"
    /\ reg.pcReg = 1

\* C15: every memory read (a drive phase under M_GPR) and every memory write (a
\* latch phase under GPR_M) finds the address register below 128, the size of
\* the memory array.
C15_AddressInRange ==
    (\/ phase = "drive" /\ M_GPR \in ctrlBus
     \/ phase = "latch" /\ GPR_M \in ctrlBus) => reg.marReg < MemSize

\* C16: the memory changes only in the latch phase of a tick whose published
\* control word asserts GPR_M, and then only the cell addressed by MAR changes,
\* to the value on the data bus.
C16_MemoryFrame ==
    [][mem' # mem =>
          /\ phase = "latch"
          /\ GPR_M \in ctrlBus
          /\ reg.marReg < MemSize
          /\ mem' = [mem EXCEPT ![reg.marReg] = dataBus]]_vars

C16_CellStored ==
    /\ phase = "decode"
    /\ GPR_M \in ctrlBus
    /\ reg.marReg = DataAddr
    /\ mem[DataAddr] = dataBus
    /\ mem[DataAddr] # start.mem[DataAddr]
    /\ \A a \in 0 .. (MemSize - 1) : a # DataAddr => mem[a] = start.mem[a]

\* C17: the index with which the control unit reads the microcode table lies in
\* 0..135 at every decode.
C17_IndexInTable ==
    (phase = "decode" /\ status = "running") =>
        LookupIndex(reg.sReg, reg.oprReg) \in 0 .. (MicroSize - 1)

C17_LastWordOfIsz ==
    /\ phase = "decode"
    /\ status = "running"
    /\ LookupIndex(reg.sReg, reg.oprReg) = 125
    /\ reg.oprReg = 15

\* C18: at an execute step (step counter > 2) with opcode 0 the lookup index is
\* 128 + (stepCounter - 3), outside the fetch block 0..7, the step is the first
\* execute step and its word halts; with a non-zero opcode the index is
\* opcode * 8 + (stepCounter - 3).
C18_HaltRedirect ==
    (phase = "decode" /\ status = "running" /\ reg.sReg > 2) =>
        LET index == LookupIndex(reg.sReg, reg.oprReg)
        IN  IF reg.oprReg = 0
            THEN /\ index = 128 + (reg.sReg - 3)
                 /\ index \notin 0 .. 7
                 /\ reg.sReg = 3
                 /\ DecodesHalt
            ELSE index = reg.oprReg * 8 + (reg.sReg - 3)

C18_HaltWordFetched ==
    /\ phase = "decode"
    /\ status = "running"
    /\ reg.sReg = 3
    /\ reg.oprReg = 0
    /\ reg.gprReg \in DataVals \ {0, AccMod - 1}
    /\ DecodesHalt

\* C19: the decode of a tick publishes the looked-up word with INCPC added exactly
\* when that word asserts INCPCF and the sampled F is 0 or asserts INCPCZ and the
\* sampled Z is 1, and publishes it as it is otherwise (a CLRSC word is replaced
\* by the first fetch word); PC is incremented by 1 mod 256 in the tick, in its
\* compute phase, iff the published word asserts INCPC, and is otherwise left
\* alone by every phase but for the transfers PC_GPR and GPR_PC.
C19_SkipDecodeRule ==
    [][/\ (phase = "decode" /\ CLRSC \notin lookedUp') =>
             LET skip == \/ INCPCF \in lookedUp' /\ FlagF = 0
                         \/ INCPCZ \in lookedUp' /\ FlagZ = 1
             IN  ctrlBus' = IF skip THEN lookedUp' \cup {INCPC} ELSE lookedUp'
       /\ phase = "compute" =>
             IF INCPC \in ctrlBus
             THEN reg'.pcReg = (reg.pcReg + 1) % 256
             ELSE \/ reg'.pcReg = reg.pcReg
                  \/ PC_GPR \in ctrlBus /\ reg'.pcReg = reg.gprReg % 256
       /\ phase \in {"decode", "drive"} => reg'.pcReg = reg.pcReg
       /\ phase = "latch" =>
             \/ reg'.pcReg = reg.pcReg
             \/ GPR_PC \in ctrlBus /\ reg'.pcReg = dataBus % 256]_vars

C19_SkippedOnZero ==
    /\ phase = "latch"
    /\ INCPCZ \in lookedUp
    /\ INCPC \in ctrlBus \ lookedUp
    /\ reg.pcReg = start.reg.pcReg + 2

\* C20: in a tick whose published control word asserts PC_GPR the compute phase
\* puts the low 8 bits of GPR into PC and the old PC into GPR, and the latch
\* phase leaves both as they are: GPR latches the bus, which carries the old PC.
C20_SwapKept ==
    [][(PC_GPR \in ctrlBus) =>
          /\ phase = "drive" => reg' = reg
          /\ phase = "compute" =>
                (reg'.pcReg = reg.gprReg % 256 /\ reg'.gprReg = reg.pcReg)
          /\ phase = "latch" =>
                (reg'.pcReg = reg.pcReg /\ reg'.gprReg = reg.gprReg)]_vars

C20_SwappedAfterLatch ==
    /\ phase = "decode"
    /\ ticks > 0
    /\ PC_GPR \in ctrlBus
    /\ reg.pcReg = DataAddr
    /\ reg.gprReg = start.reg.pcReg + 1
    /\ Len(latched) = 1 /\ latched[1][1] = "gprReg"

\* C21: a call of reset leaves each of the seven registers at zero, whatever they
\* held, so that the next tick looks up the first fetch word (PC -> MAR) with
\* PC = 0.
C21_ResetZeroesRegisters ==
    [][resets' # resets =>
          /\ \A r \in RegNames : reg'[r] = 0
          /\ LookupIndex(reg'.sReg, reg'.oprReg) = 0
          /\ MicrocodeAt(0) = {{PC_MAR}}]_vars

C21_ResetInMidRun ==
    /\ resets = MaxResets
    /\ ticks > 8
    /\ phase = "decode"
    /\ \A r \in RegNames : reg[r] = 0
    /\ lookedUp # {}

\* C22: a decode that looks up a word asserting CLRSC sets the step counter to
\* zero in that same decode and publishes the first fetch word, microcode[0]
\* = PC -> MAR, in place of the looked-up word.
C22_ClearInSameDecode ==
    [][(phase = "decode" /\ CLRSC \in lookedUp') =>
          /\ reg'.sReg = 0
          /\ ctrlBus' = {PC_MAR}
          /\ ctrlBus' # lookedUp']_vars

C22_ClearedAfterAdd ==
    /\ phase = "drive"
    /\ CLRSC \in lookedUp
    /\ reg.sReg = 0
    /\ reg.oprReg = 9
    /\ ctrlBus = {PC_MAR}

\* C23: in the compute phase of a tick a register whose increment condition holds
\* becomes (value + 1) masked to its width: the step counter in every tick, modulo
\* 16, PC under INCPC modulo 256, the accumulator under INCA and GPR under INCGPR
\* modulo 4096. A register whose condition does not hold is not incremented: it
\* keeps its value unless the tick's word makes the GPR bus or the adder write it.
C23_IncrementWraps ==
    [][phase = "compute" =>
          /\ reg'.sReg = (reg.sReg + 1) % 16
          /\ IF INCPC \in ctrlBus
             THEN reg'.pcReg = (reg.pcReg + 1) % 256
             ELSE reg'.pcReg = reg.pcReg \/ PC_GPR \in ctrlBus
          /\ IF INCA \in ctrlBus
             THEN reg'.accReg = (reg.accReg + 1) % 4096
             ELSE reg'.accReg = reg.accReg \/ ctrlBus \cap AdderInMask # {}
          /\ IF INCGPR \in ctrlBus
             THEN reg'.gprReg = (reg.gprReg + 1) % 4096
             ELSE reg'.gprReg = reg.gprReg \/ PC_GPR \in ctrlBus
          /\ reg'.oprReg = reg.oprReg \/ GPR_OP \in ctrlBus
          /\ reg'.marReg = reg.marReg]_vars

C23_AccumulatorWrapped ==
    /\ phase = "latch"
    /\ INCA \in ctrlBus
    /\ start.reg.accReg = AccMod - 1
    /\ reg.accReg = 0

\* C24: an ISZ instruction (opcode 15) on an address of the image changes the
\* operand cell to (old value + 1) mod 4096 and no other cell, ends with PC
\* advanced by 2 when the new value is 0 and by 1 otherwise, and leaves the
\* accumulator as it was.
C24_IncrementAndSkip ==
    (EndsInstruction /\ reg.oprReg = 15 /\ OperandInImage) =>
        LET p == start.reg.pcReg
            d == start.mem[p] % 256
            new == (start.mem[d] + 1) % 4096
        IN  /\ mem = [start.mem EXCEPT ![d] = new]
            /\ reg.pcReg = (p + (IF new = 0 THEN 2 ELSE 1)) % 256
            /\ reg.accReg = start.reg.accReg

C24_SkippedOnWrap ==
    /\ EndsInstruction
    /\ reg.oprReg = 15
    /\ start.mem[DataAddr] = AccMod - 1
    /\ start.reg.accReg # 0
    /\ mem[DataAddr] = 0
    /\ reg.pcReg = start.reg.pcReg + 2

\* C25: a CSR instruction (opcode 14) fetched from address p, on an operand
\* address inside the memory, stores the return address p + 1 mod 256 in the
\* operand cell and in no other cell, ends with PC at the operand address + 1
\* mod 256, and leaves the accumulator as it was.
C25_CallStoresReturn ==
    (/\ EndsInstruction
     /\ reg.oprReg = 14
     /\ start.reg.pcReg < MemSize
     /\ start.mem[start.reg.pcReg] # Undef
     /\ start.mem[start.reg.pcReg] % 256 < MemSize) =>
        LET p == start.reg.pcReg
            d == start.mem[p] % 256
        IN  /\ mem = [start.mem EXCEPT ![d] = (p + 1) % 256]
            /\ reg.pcReg = (d + 1) % 256
            /\ reg.accReg = start.reg.accReg

C25_CalledFromWordOne ==
    /\ EndsInstruction
    /\ reg.oprReg = 14
    /\ start.reg.pcReg = 1
    /\ start.reg.accReg # 0
    /\ mem[DataAddr] = 2
    /\ reg.pcReg = DataAddr + 1

\* C26: an STA instruction (opcode 11) on an operand address inside the memory,
\* started with the accumulator at A, leaves the operand cell at A and every
\* other cell as it was, the accumulator at A, and PC advanced by 1.
C26_StoreAccumulator ==
    (/\ EndsInstruction
     /\ reg.oprReg = 11
     /\ start.reg.pcReg < MemSize
     /\ start.mem[start.reg.pcReg] # Undef
     /\ start.mem[start.reg.pcReg] % 256 < MemSize) =>
        LET p == start.reg.pcReg
            d == start.mem[p] % 256
            A == start.reg.accReg
        IN  /\ mem = [start.mem EXCEPT ![d] = A]
            /\ reg.accReg = A
            /\ reg.pcReg = (p + 1) % 256

C26_StoredAllOnes ==
    /\ EndsInstruction
    /\ reg.oprReg = 11
    /\ start.reg.accReg = AccMod - 1
    /\ start.mem[DataAddr] = 5
    /\ mem[DataAddr] = AccMod - 1

\* C27: in a tick asserting A_GPR the compute phase sets GPR to the accumulator,
\* so that GPR equals the accumulator when the latch phase begins.
C27_CopiedInCompute ==
    (phase = "latch" /\ A_GPR \in ctrlBus) => reg.gprReg = reg.accReg

\* C28: after a tick asserting ROL, entered with the accumulator at a and the
\* carry F at f, F is bit 11 of a, the accumulator is ((a << 1) | f) masked to
\* 12 bits, and Z is 1 iff GPR is 0.
C28_RotateLeftTick ==
    (phase = "decode" /\ ticks > 0 /\ ROL \in ctrlBus) =>
        LET a == start.reg.accReg
            f == Bit(start.reg.flgReg, 0)
        IN  /\ FlagF = (a \div 2048) % 2
            /\ reg.accReg = (2 * a + f) % 4096
            /\ (FlagZ = 1 <=> reg.gprReg = 0)

C28_CarryOutOfBitEleven ==
    /\ phase = "decode"
    /\ ticks > 0
    /\ ROL \in ctrlBus
    /\ start.reg.accReg = 2049
    /\ Bit(start.reg.flgReg, 0) = 1
    /\ reg.accReg = 3
    /\ FlagF = 1

\* C29: in a tick asserting GPR_OP the compute phase sets the operation register
\* to bits 11..8 of GPR, and GPR, PC and the accumulator keep their values through
\* the tick; no step of any other tick, and no other phase, changes the operation
\* register.
C29_OperationRegisterLoad ==
    [][/\ reg'.oprReg = (IF phase = "compute" /\ GPR_OP \in ctrlBus
                         THEN (reg.gprReg \div 256) % 16
                         ELSE reg.oprReg)
       /\ (phase # "decode" /\ GPR_OP \in ctrlBus) =>
             (/\ reg'.gprReg = reg.gprReg
              /\ reg'.pcReg = reg.pcReg
              /\ reg'.accReg = reg.accReg)]_vars

C29_OpcodeOfIszLoaded ==
    /\ phase = "decode"
    /\ ticks > 0
    /\ GPR_OP \in ctrlBus
    /\ reg.gprReg = Instr(15, DataAddr)
    /\ reg.oprReg = 15

\* C30: for any memory image, no more than 8 decodes in a row neither look up a
\* word asserting CLRSC nor halt: from every state that has not halted the
\* control unit decodes CLRSC or HLT within 9 ticks.
C30_ClearsWithinNineTicks == idle <= 8

C30_NinthTickOfIsz ==
    /\ phase = "decode"
    /\ status = "running"
    /\ idle = 8
    /\ reg.oprReg = 15
    /\ EndsInstruction

\* C31: in every state after reset each register lies within its width (PC and
\* MAR at most 0xFF, accumulator and GPR at most 0xFFF, the flag register at most
\* 3, the operation register and the step counter at most 0xF), and every cell of
\* the memory holds at most 0xFFF, the cells the program wrote included, or was
\* never loaded nor written.
C31_WidthInvariant ==
    status # "constructed" =>
        /\ reg.pcReg <= 255
        /\ reg.marReg <= 255
        /\ reg.accReg <= 4095
        /\ reg.gprReg <= 4095
        /\ reg.flgReg <= 3
        /\ reg.oprReg <= 15
        /\ reg.sReg <= 15
        /\ \A a \in DOMAIN mem : mem[a] <= 4095 \/ mem[a] = Undef

C31_JumpMaskedToByte ==
    /\ phase = "decode"
    /\ ticks > 0
    /\ GPR_PC \in ctrlBus
    /\ dataBus > 255
    /\ reg.pcReg = dataBus % 256
    /\ Len(latched) = 1 /\ latched[1] = <<"pcReg", dataBus>>

====
